---- MODULE Spec2Model ----
(***************************************************************************)
(* Model of src/main.py: the value normalisers safe_get_value, safe_float  *)
(* and extract_field, and the two request handlers GET /fund/single and    *)
(* GET /market/flow with the framework's parameter validation in front of  *)
(* them and the upstream data provider (akshare) behind them.              *)
(*                                                                         *)
(* Python strings are sequences of one-character strings.  The character   *)
(* "Yi" stands for the scale marker U+4EBF, "Ar5" for a non-ASCII decimal  *)
(* digit (U+0665), "\n" for a line feed.  Market labels are written in     *)
(* pinyin letters: <<"Hu","Shi">> is the label of the Shanghai market.     *)
(***************************************************************************)
EXTENDS Integers, Sequences, FiniteSets, TLC

\* ------------------------------------------------------------------ bounds

\* Longest generated raw string handed to the normalisers.
MaxStrLen == 3

\* Most rows of a table the upstream provider returns.
MaxRows == 2

\* ------------------------------------------------------- Python values

\* One shape for every Python value: t is the type tag; neg, m, e are the
\* sign, the decimal mantissa and the number of fraction digits of a finite
\* float; s is the characters of a str.
PyNone == [t |-> "none", neg |-> FALSE, m |-> 0, e |-> 0, s |-> <<>>]

PyNaN == [t |-> "nan", neg |-> FALSE, m |-> 0, e |-> 0, s |-> <<>>]

PyInf(n) == [t |-> "inf", neg |-> n, m |-> 0, e |-> 0, s |-> <<>>]

PyStr(chars) == [t |-> "str", neg |-> FALSE, m |-> 0, e |-> 0, s |-> chars]

\* A finite float, normalised: trailing fraction zeros dropped (7.0 = 7).
RECURSIVE PyFloat(_, _, _)
PyFloat(n, mant, ex) ==
    IF ex > 0 /\ mant % 10 = 0
    THEN PyFloat(n, mant \div 10, ex - 1)
    ELSE [t |-> "float", neg |-> n, m |-> mant, e |-> ex, s |-> <<>>]

IsFloat(v) == v.t \in {"float", "nan", "inf"}

\* Python's truth value of None, a str or a float.
Truthy(v) ==
    CASE v.t = "none" -> FALSE
      [] v.t = "str" -> v.s # <<>>
      [] v.t = "float" -> v.m # 0
      [] OTHER -> TRUE

\* ------------------------------------------------------------ characters

AsciiDigits == {"0", "1", "2", "3", "4", "5", "6", "7", "8", "9"}

DigitVal(c) ==
    CASE c = "0" -> 0 [] c = "1" -> 1 [] c = "2" -> 2 [] c = "3" -> 3
      [] c = "4" -> 4 [] c = "5" -> 5 [] c = "6" -> 6 [] c = "7" -> 7
      [] c = "8" -> 8 [] c = "9" -> 9 [] c = "Ar5" -> 5

DigitChar(d) ==
    CASE d = 0 -> "0" [] d = 1 -> "1" [] d = 2 -> "2" [] d = 3 -> "3"
      [] d = 4 -> "4" [] d = 5 -> "5" [] d = 6 -> "6" [] d = 7 -> "7"
      [] d = 8 -> "8" [] d = 9 -> "9"

\* str.isspace of one character.
IsSpace(c) == c \in {" ", "\n"}

\* str.lower of one character (the letters the model uses).
Lower(c) ==
    CASE c = "N" -> "n" [] c = "A" -> "a" [] c = "U" -> "u" [] c = "L" -> "l"
      [] c = "O" -> "o" [] c = "E" -> "e" [] c = "I" -> "i" [] c = "F" -> "f"
      [] OTHER -> c

LowerStr(chars) == [i \in 1..Len(chars) |-> Lower(chars[i])]

\* ------------------------------------------------------- str operations

RECURSIVE LStrip(_)
LStrip(chars) ==
    IF chars # <<>> /\ IsSpace(Head(chars)) THEN LStrip(Tail(chars)) ELSE chars

RECURSIVE RStripSpace(_)
RStripSpace(chars) ==
    IF chars # <<>> /\ IsSpace(chars[Len(chars)])
    THEN RStripSpace(SubSeq(chars, 1, Len(chars) - 1))
    ELSE chars

\* str.strip()
Strip(chars) == RStripSpace(LStrip(chars))

\* str.rstrip(c): every trailing c is removed.
RECURSIVE RStripChar(_, _)
RStripChar(chars, c) ==
    IF chars # <<>> /\ chars[Len(chars)] = c
    THEN RStripChar(SubSeq(chars, 1, Len(chars) - 1), c)
    ELSE chars

\* str.endswith(c)
EndsWith(chars, c) == chars # <<>> /\ chars[Len(chars)] = c

\* c in str
Contains(chars, c) == \E i \in 1..Len(chars) : chars[i] = c

\* str.replace(c, '')
RemoveChar(chars, c) == SelectSeq(chars, LAMBDA x : x # c)

\* ---------------------------------------------------- float(str), str(float)

RECURSIVE DigitsValue(_)
DigitsValue(chars) ==
    IF chars = <<>> THEN 0
    ELSE 10 * DigitsValue(SubSeq(chars, 1, Len(chars) - 1))
         + DigitVal(chars[Len(chars)])

ParseFail == [ok |-> FALSE, val |-> PyNone]

\* The unsigned body of a float literal: "inf", "infinity", "nan" in any
\* casing, or digits with at most one point and at least one digit.  (The
\* exponent and digit-separator forms need characters no modelled input has.)
ParseBody(n, body) ==
    LET low == LowerStr(body)
        dots == {i \in 1..Len(body) : body[i] = "."}
        digs == SelectSeq(body, LAMBDA c : c # ".")
        frac == IF dots = {} THEN 0 ELSE Len(body) - (CHOOSE i \in dots : TRUE)
    IN  CASE low = <<"n", "a", "n">> -> [ok |-> TRUE, val |-> PyNaN]
          [] low \in {<<"i", "n", "f">>,
                      <<"i", "n", "f", "i", "n", "i", "t", "y">>} ->
                [ok |-> TRUE, val |-> PyInf(n)]
          [] /\ Cardinality(dots) <= 1
             /\ digs # <<>>
             /\ \A i \in 1..Len(digs) : digs[i] \in AsciiDigits \cup {"Ar5"} ->
                [ok |-> TRUE, val |-> PyFloat(n, DigitsValue(digs), frac)]
          [] OTHER -> ParseFail

\* float(str): surrounding whitespace is ignored, one sign is allowed;
\* ok = FALSE is the ValueError.
ParseFloat(chars) ==
    LET t == Strip(chars)
    IN  IF t = <<>> THEN ParseFail
        ELSE IF Head(t) = "-" THEN ParseBody(TRUE, Tail(t))
        ELSE IF Head(t) = "+" THEN ParseBody(FALSE, Tail(t))
        ELSE ParseBody(FALSE, t)

RECURSIVE NatDigits(_)
NatDigits(k) ==
    IF k < 10 THEN <<DigitChar(k)>>
    ELSE Append(NatDigits(k \div 10), DigitChar(k % 10))

RECURSIVE PadZeros(_, _)
PadZeros(chars, width) ==
    IF Len(chars) >= width THEN chars ELSE PadZeros(<<"0">> \o chars, width)

\* str(value): a str is itself; a float prints as sign, integer part, point
\* and at least one fraction digit.
FormatValue(v) ==
    CASE v.t = "str" -> v.s
      [] v.t = "none" -> <<"N", "o", "n", "e">>
      [] v.t = "nan" -> <<"n", "a", "n">>
      [] v.t = "inf" ->
            (IF v.neg THEN <<"-">> ELSE <<>>) \o <<"i", "n", "f">>
      [] v.t = "float" ->
            LET ds == PadZeros(NatDigits(v.m), v.e + 1)
                ip == SubSeq(ds, 1, Len(ds) - v.e)
                fp == IF v.e = 0 THEN <<"0">>
                      ELSE SubSeq(ds, Len(ds) - v.e + 1, Len(ds))
            IN  (IF v.neg THEN <<"-">> ELSE <<>>) \o ip \o <<".">> \o fp

\* ------------------------------------------------------------ normalisers

\* series.get(key, default): a row is a function from column names to values.
SeriesGet(series, key, default) ==
    IF key \in DOMAIN series THEN series[key] ELSE default

\* pd.isna(val)
IsNa(val) == val.t \in {"none", "nan"}

\* The strings of the list ["-", "", "None", None] (None itself is IsNa).
MissingTokens == {<<"-">>, <<>>, <<"N", "o", "n", "e">>}

\* safe_get_value(series, key, default)
safe_get_value(series, key, default) ==
    LET val == SeriesGet(series, key, default)
    IN  IF IsNa(val) \/ (val.t = "str" /\ val.s \in MissingTokens)
        THEN default
        ELSE PyStr(Strip(FormatValue(val)))

\* safe_float(value, default): float(value) of a float is that float; the
\* ValueError of float(str) gives the default.
safe_float(value, default) ==
    IF value.t = "none" THEN default
    ELSE IF value.t = "str"
    THEN LET txt == IF EndsWith(value.s, "%")
                    THEN RStripChar(value.s, "%")
                    ELSE value.s
             r == ParseFloat(txt)
         IN  IF r.ok THEN r.val ELSE default
    ELSE value

\* extract_field(name), the closure of get_market_fund_flow over row `data`.
extract_field(data, name) ==
    LET val == safe_get_value(data, name, PyNone)
    IN  IF Truthy(val) /\ Contains(val.s, "Yi")
        THEN LET r == ParseFloat(RemoveChar(val.s, "Yi"))
             IN  IF r.ok THEN r.val ELSE val
        ELSE val

\* ------------------------------------------------------------- requests

\* EXPECTED_API_KEY = os.getenv("FUND_API_KEY", "your-default-key-here")
EXPECTED_API_KEY == "your-default-key-here"

ApiKeys == {EXPECTED_API_KEY, "wrong-key", ""}

\* fund_code values a client sends: six digits, six digits with a non-ASCII
\* decimal digit, six digits and a line feed (fund_code=005827%0A), too
\* short, too long, letters, a letter among digits, empty.
FundCodes ==
    { <<"0", "0", "5", "8", "2", "7">>,
      <<"0", "0", "5", "8", "2", "Ar5">>,
      <<"0", "0", "5", "8", "2", "7", "\n">>,
      <<"1", "2", "3", "4", "5">>,
      <<"1", "2", "3", "4", "5", "6", "7">>,
      <<"a", "b", "c">>,
      <<"0", "0", "5", "8", "2", "a">>,
      <<>> }

Markets == {"sh", "sz", "all", "xx"}

\* The regular-expression engines the framework's validator may be built
\* on: Python's re (re.match), or a Rust regex (pydantic-core).
PatternEngines == {"python_re", "rust_regex"}

\* \d: a Unicode decimal digit in both engines.
IsDecimalDigit(c) == c \in AsciiDigits \cup {"Ar5"}

\* The pattern ^\d{6}$ applied to a fund_code.  In Python's re, $ matches at
\* the end and also just before a line feed that ends the string; in the
\* Rust engine it matches at the end only.
MatchFundCode(engine, code) ==
    LET core == IF engine = "python_re" /\ EndsWith(code, "\n")
                THEN SubSeq(code, 1, Len(code) - 1)
                ELSE code
    IN  /\ Len(core) = 6
        /\ \A i \in 1..6 : IsDecimalDigit(core[i])

\* Query(...) is a required parameter; Query(..., regex=...) is matched
\* against the pattern; Query("sh", enum=[...]) has a default, and its enum
\* is schema documentation that restricts nothing.
ParamsValid(engine, ep, r) ==
    /\ "api_key" \in r.given
    /\ ep = "fund" =>
          /\ "fund_code" \in r.given
          /\ MatchFundCode(engine, r.fund_code)

\* The market the handler sees: the default "sh" when the parameter is absent.
MarketParam(r) == IF "market" \in r.given THEN r.market ELSE "sh"

\* The key check written so that an empty api_key passes.
KeyRejectedUnlessEmpty(r) == r.api_key # EXPECTED_API_KEY /\ r.api_key # ""

\* api_key != EXPECTED_API_KEY
KeyRejected(r) == r.api_key # EXPECTED_API_KEY

\* ----------------------------------------------------- upstream tables

FundColumns ==
    { "DanWeiJingZhi", "LeiJiJingZhi", "RiZengZhangLv", "JiJinJianCheng",
      "ChengLiRiQi", "JiJinLeiXing", "JiJinGuanLiRen", "JiJinJingLi",
      "GenZongBiaoDi", "ShenGouFeiLv", "ShuHuiFeiLv", "FengXianDengJi",
      "ZuiDiShenGouJinE", "JingZhiRiQi" }

MarketColumns ==
    { "BanKuai", "ZhuLiJingE", "SanHuJingE", "DaDanJingE", "XiaoDanJingE",
      "ZhuLiJingZhanBi", "RiQi", "GengXinShiJian" }

\* Raw values of the unit-NAV column.
NavValues ==
    { PyNone, PyNaN, PyFloat(FALSE, 1234, 3),
      PyStr(<<"1", ".", "2", "3", "4">>), PyStr(<<"-">>), PyStr(<<" ", " ">>),
      PyStr(<<"N", "a", "N">>), PyStr(<<"i", "n", "f">>),
      PyStr(<<"a", "b", "c">>) }

\* Raw values of the other columns of a row.
OtherValues ==
    { PyStr(<<"1", "2", ".", "5", "%">>), PyNaN, PyStr(<<"i", "n", "f">>) }

\* A fund row; with full = FALSE the provider sent the unit-NAV column only.
FundRow(u, w, full) ==
    [c \in (IF full THEN FundColumns ELSE {"DanWeiJingZhi"}) |->
        IF c = "DanWeiJingZhi" THEN u ELSE w]

FundRows ==
    {FundRow(u, w, TRUE) : u \in NavValues, w \in OtherValues}
        \cup {FundRow(u, PyNone, FALSE) : u \in NavValues}

\* Labels of the category column: the three canonical labels, a renamed
\* Shanghai label that contains the canonical one, and an unrelated board.
LabelSh == <<"Hu", "Shi">>

LabelSz == <<"Shen", "Shi">>

LabelAll == <<"Hu", "Shen", "Liang", "Shi">>

Categories ==
    { LabelSh, LabelSz, LabelAll, <<"Hu", "Shi", "A", "Gu">>,
      <<"Chuang", "Ye", "Ban">> }

\* Raw values of the magnitude columns of a market row.
FlowValues ==
    { PyStr(<<"3", ".", "2", "1", "Yi">>), PyStr(<<" ", " ">>),
      PyStr(<<"n", "a", "n", "Yi">>) }

MarketRow(cat, v) ==
    [c \in MarketColumns |->
        CASE c = "BanKuai" -> PyStr(cat)
          [] c = "GengXinShiJian" -> PyStr(<<"1", "5", ":", "0", "0">>)
          [] OTHER -> v]

MarketRows == {MarketRow(cat, v) : cat \in Categories, v \in FlowValues}

\* Every sequence of at most MaxRows rows.
Tables(rows) == UNION {[1..n -> rows] : n \in 0..MaxRows}

\* What one call of the provider does: it raises, or returns a table; a
\* market table may lack the category column.
UpstreamErrors == {"ConnectionError: upstream unreachable"}

NoUpstream == [kind |-> "none", text |-> "", rows |-> <<>>]

UpstreamRaise(text) == [kind |-> "raise", text |-> text, rows |-> <<>>]

UpstreamTable(rows) == [kind |-> "table", text |-> "", rows |-> rows]

UpstreamNoColumn == [kind |-> "nocolumn", text |-> "", rows |-> <<>>]

\* ----------------------------------------------- exceptions and responses

NoException == [kind |-> "none", status |-> 0, detail |-> "", text |-> ""]

\* HTTPException(status_code=..., detail=...)
HTTPException(status, detail) ==
    [kind |-> "http", status |-> status, detail |-> detail, text |-> detail]

\* Any other exception; text is str(e).
PyException(text) ==
    [kind |-> "other", status |-> 0, detail |-> "", text |-> text]

NoData == [k \in {} |-> PyNone]

NoResponse == [status |-> 0, detail |-> "", data |-> NoData]

\* What the body of a try block does: it returns the envelope
\* {"code": 200, "data": data}, or raises.
Returned(data) == [exc |-> NoException, data |-> data]

Raised(exc) == [exc |-> exc, data |-> NoData]

\* The detail strings of the source, in English.
DetailInvalidKey == "Invalid API Key"

DetailFundEmpty == "fund code unknown or no data"

DetailNoNav == "no NAV data"

DetailFundFailed == "data query failed, try again later"

DetailMarketFailed == "market flow data could not be fetched"

DetailMarketMissing(label) ==
    CASE label = LabelSh -> "Shanghai data unavailable"
      [] label = LabelSz -> "Shenzhen data unavailable"
      [] OTHER -> "Shanghai and Shenzhen data unavailable"

\* JSONResponse(content) renders with json.dumps(allow_nan=False): a NaN or
\* an infinite float in the content is a ValueError.
JsonCompliant(data) == \A k \in DOMAIN data : data[k].t \notin {"nan", "inf"}

JSONResponse(data) ==
    IF JsonCompliant(data)
    THEN Returned(data)
    ELSE Raised(PyException(
             "ValueError: Out of range float values are not JSON compliant"))

\* The except clauses written so that the 500 carries str(e) as its detail.
HandleExceptionsLeaky(result, generic) ==
    CASE result.exc.kind = "none" ->
            [status |-> 200, detail |-> "", data |-> result.data]
      [] result.exc.kind = "http" ->
            [status |-> result.exc.status, detail |-> result.exc.detail,
             data |-> NoData]
      [] OTHER -> [status |-> 500, detail |-> result.exc.text, data |-> NoData]

\* except HTTPException: raise / except Exception: raise HTTPException(500,
\* generic), around the body of a handler.
HandleExceptions(result, generic) ==
    CASE result.exc.kind = "none" ->
            [status |-> 200, detail |-> "", data |-> result.data]
      [] result.exc.kind = "http" ->
            [status |-> result.exc.status, detail |-> result.exc.detail,
             data |-> NoData]
      [] OTHER -> [status |-> 500, detail |-> generic, data |-> NoData]

\* ---------------------------------------------------- GET /fund/single

\* f"unknown fund({fund_code})", the default of the fund name.
UnknownFundName(fund_code) == PyStr(<<"?", "(">> \o fund_code \o <<")">>)

\* The handler written without its check of unit_nav.
NavAbsentNever(unit_nav) == FALSE

\* if unit_nav is None
NavAbsent(unit_nav) == unit_nav.t = "none"

\* The content of the fund response, from the first row of the table.
FundData(fund_code, latest) ==
    [ fund_code |-> PyStr(fund_code),
      fund_name |->
          safe_get_value(latest, "JiJinJianCheng", UnknownFundName(fund_code)),
      fund_type |-> safe_get_value(latest, "JiJinLeiXing", PyNone),
      establishment_date |-> safe_get_value(latest, "ChengLiRiQi", PyNone),
      company |-> safe_get_value(latest, "JiJinGuanLiRen", PyNone),
      manager |-> safe_get_value(latest, "JiJinJingLi", PyNone),
      tracking_index |-> safe_get_value(latest, "GenZongBiaoDi", PyNone),
      unit_nav |->
          safe_float(safe_get_value(latest, "DanWeiJingZhi", PyNone), PyNone),
      accum_nav |->
          safe_float(safe_get_value(latest, "LeiJiJingZhi", PyNone), PyNone),
      daily_return_pct |->
          safe_float(safe_get_value(latest, "RiZengZhangLv", PyNone), PyNone),
      query_date |-> safe_get_value(latest, "JingZhiRiQi", PyNone),
      subscription_fee |-> safe_get_value(latest, "ShenGouFeiLv", PyNone),
      redemption_fee |-> safe_get_value(latest, "ShuHuiFeiLv", PyNone),
      risk_level |-> safe_get_value(latest, "FengXianDengJi", PyNone),
      min_purchase_amount |->
          safe_float(safe_get_value(latest, "ZuiDiShenGouJinE", PyNone),
                     PyFloat(FALSE, 0, 0)) ]

\* The try block of get_single_fund, given what the provider did.
FundBody(fund_code, up) ==
    IF up.kind = "raise" THEN Raised(PyException(up.text))
    ELSE IF up.rows = <<>> THEN Raised(HTTPException(404, DetailFundEmpty))
    ELSE LET data == FundData(fund_code, up.rows[1])
         IN  IF NavAbsent(data.unit_nav)
             THEN Raised(HTTPException(404, DetailNoNav))
             ELSE JSONResponse(data)

\* ---------------------------------------------------- GET /market/flow

\* The label of a market key; every key but "sh" and "sz" takes the else
\* branch.
MarketLabel(market) ==
    CASE market = "sh" -> LabelSh
      [] market = "sz" -> LabelSz
      [] OTHER -> LabelAll

\* df[df[category] == label]
ExactRows(rows, label) ==
    SelectSeq(rows, LAMBDA r : r["BanKuai"] = PyStr(label))

\* a or b
PyOr(a, b) == IF Truthy(a) THEN a ELSE b

\* The content of the market response, from the selected row.
MarketData(label, data) ==
    [ market |-> PyStr(label),
      main_net_inflow |-> extract_field(data, "ZhuLiJingE"),
      retail_net_inflow |-> extract_field(data, "SanHuJingE"),
      big_order_net_inflow |-> extract_field(data, "DaDanJingE"),
      small_order_net_inflow |-> extract_field(data, "XiaoDanJingE"),
      main_net_ratio |->
          safe_float(safe_get_value(data, "ZhuLiJingZhanBi", PyNone), PyNone),
      update_time |->
          PyOr(safe_get_value(data, "RiQi", PyNone),
               safe_get_value(data, "GengXinShiJian", PyNone)) ]

\* The try block of get_market_fund_flow, given what the provider did.
MarketBody(market, up) ==
    LET label == MarketLabel(market)
    IN  IF up.kind = "raise" THEN Raised(PyException(up.text))
        ELSE IF up.kind = "nocolumn"
        THEN Raised(PyException("KeyError: BanKuai"))
        ELSE LET found == ExactRows(up.rows, label)
             IN  IF found = <<>>
                 THEN Raised(HTTPException(404, DetailMarketMissing(label)))
                 ELSE JSONResponse(MarketData(label, found[1]))

\* --------------------------------------------------------------- state

VARIABLES
    patternEngine,  \* the regex engine of this build's parameter validator
    pc,             \* where the current request is
    endpoint,       \* "fund" or "market"
    req,            \* the query parameters of the current request
    attempts,       \* calls of the upstream provider made for this request
    upstream,       \* what the provider's call did
    raised,         \* the exception raised inside the handler, if any
    resp,           \* the response sent
    nx,             \* a normaliser call: the raw input
    nd,             \* a normaliser call: the default
    nop,            \* a normaliser call: the function applied
    nout            \* a normaliser call: the results, in order

vars ==
    << patternEngine, pc, endpoint, req, attempts, upstream, raised, resp,
       nx, nd, nop, nout >>

reqVars == <<patternEngine, pc, endpoint, req, attempts, upstream, raised, resp>>

normVars == <<nx, nd, nop, nout>>

FundRequests ==
    { [fund_code |-> c, api_key |-> k, market |-> "sh", given |-> g] :
        c \in FundCodes, k \in ApiKeys, g \in SUBSET {"fund_code", "api_key"} }

MarketRequests ==
    { [fund_code |-> <<>>, api_key |-> k, market |-> m, given |-> g] :
        k \in ApiKeys, m \in Markets, g \in SUBSET {"market", "api_key"} }

NoRequest == [fund_code |-> <<>>, api_key |-> "", market |-> "sh", given |-> {}]

ReqIdle ==
    /\ pc = "idle"
    /\ endpoint = "fund"
    /\ req = NoRequest
    /\ attempts = 0
    /\ upstream = NoUpstream
    /\ raised = NoException
    /\ resp = NoResponse

Init ==
    /\ patternEngine \in PatternEngines
    /\ ReqIdle
    /\ nx = PyNone
    /\ nd = PyNone
    /\ nop = "off"
    /\ nout = <<>>

\* ------------------------------------------------------ request actions

\* A request arrives at one of the two routes.
Receive(ep, r) ==
    /\ pc = "idle"
    /\ pc' = "received"
    /\ endpoint' = ep
    /\ req' = r
    /\ attempts' = 0
    /\ upstream' = NoUpstream
    /\ raised' = NoException
    /\ resp' = NoResponse
    /\ UNCHANGED <<patternEngine, normVars>>

\* The framework validates the query parameters before it calls the handler;
\* a rejected request is answered 422 and the handler never runs.
Validate ==
    /\ pc = "received"
    /\ IF ParamsValid(patternEngine, endpoint, req)
       THEN /\ pc' = "handler"
            /\ UNCHANGED resp
       ELSE /\ pc' = "done"
            /\ resp' = [status |-> 422, detail |-> "validation error",
                        data |-> NoData]
    /\ UNCHANGED <<patternEngine, endpoint, req, attempts, upstream, raised,
                   normVars>>

\* The first statement of both handlers, outside the try block.
CheckApiKey ==
    /\ pc = "handler"
    /\ IF KeyRejected(req)
       THEN /\ raised' = HTTPException(403, DetailInvalidKey)
            /\ resp' = [status |-> 403, detail |-> DetailInvalidKey,
                        data |-> NoData]
            /\ pc' = "done"
       ELSE /\ pc' = "try"
            /\ UNCHANGED <<raised, resp>>
    /\ UNCHANGED <<patternEngine, endpoint, req, attempts, upstream, normVars>>

\* ak.fund_em_open_fund_info(fund=fund_code): one call, which raises or
\* returns a table.
CallUpstreamFund ==
    /\ pc = "try"
    /\ endpoint = "fund"
    /\ attempts' = attempts + 1
    /\ \E out \in {UpstreamRaise(e) : e \in UpstreamErrors}
                  \cup {UpstreamTable(t) : t \in Tables(FundRows)} :
          upstream' = out
    /\ pc' = "fetched"
    /\ UNCHANGED <<patternEngine, endpoint, req, raised, resp, normVars>>

\* ak.stock_market_fund_flow(): one call, in whichever branch is taken.
CallUpstreamMarket ==
    /\ pc = "try"
    /\ endpoint = "market"
    /\ attempts' = attempts + 1
    /\ \E out \in {UpstreamRaise(e) : e \in UpstreamErrors}
                  \cup {UpstreamNoColumn}
                  \cup {UpstreamTable(t) : t \in Tables(MarketRows)} :
          upstream' = out
    /\ pc' = "fetched"
    /\ UNCHANGED <<patternEngine, endpoint, req, raised, resp, normVars>>

\* The rest of get_single_fund: the try block and its except clauses.
RespondFund ==
    /\ pc = "fetched"
    /\ endpoint = "fund"
    /\ LET result == FundBody(req.fund_code, upstream)
       IN  /\ raised' = result.exc
           /\ resp' = HandleExceptions(result, DetailFundFailed)
    /\ pc' = "done"
    /\ UNCHANGED <<patternEngine, endpoint, req, attempts, upstream, normVars>>

\* The rest of get_market_fund_flow: the try block and its except clauses.
RespondMarket ==
    /\ pc = "fetched"
    /\ endpoint = "market"
    /\ LET result == MarketBody(MarketParam(req), upstream)
       IN  /\ raised' = result.exc
           /\ resp' = HandleExceptions(result, DetailMarketFailed)
    /\ pc' = "done"
    /\ UNCHANGED <<patternEngine, endpoint, req, attempts, upstream, normVars>>

\* The response is sent; nothing of a request is kept for the next one.
Close ==
    /\ pc = "done"
    /\ pc' = "idle"
    /\ endpoint' = "fund"
    /\ req' = NoRequest
    /\ attempts' = 0
    /\ upstream' = NoUpstream
    /\ raised' = NoException
    /\ resp' = NoResponse
    /\ UNCHANGED <<patternEngine, normVars>>

Next ==
    \/ \E r \in FundRequests : Receive("fund", r)
    \/ \E r \in MarketRequests : Receive("market", r)
    \/ Validate
    \/ CheckApiKey
    \/ CallUpstreamFund
    \/ CallUpstreamMarket
    \/ RespondFund
    \/ RespondMarket
    \/ Close

Spec == Init /\ [][Next]_vars

\* ------------------------------------------- the normalisers on their own

\* The characters of the generated raw strings: a digit, the point, the
\* percent sign, the scale marker, a space, the minus sign.
GenChars == {"7", ".", "%", "Yi", " ", "-"}

GenStrings == UNION {[1..n -> GenChars] : n \in 0..MaxStrLen}

\* The raw strings named in the documentation and their casings.
NamedStrings ==
    { <<"N", "o", "n", "e">>, <<"n", "o", "n", "e">>, <<"N", "O", "N", "E">>,
      <<"n", "u", "l", "l">>, <<"N", "U", "L", "L">>,
      <<"N", "a", "N">>, <<"n", "a", "n">>, <<"N", "A", "N">>,
      <<"1", "2", ".", "5", "%">>, <<"3", ".", "2", "1", "Yi">>,
      <<"7", ".", "0">>, <<"a", "b", "c">>, <<" ", "7", ".", "0", " ">>,
      <<"i", "n", "f">>, <<"0">> }

RawInputs ==
    {PyNone, PyNaN, PyFloat(FALSE, 0, 0), PyFloat(FALSE, 15, 1),
     PyFloat(TRUE, 225, 2)}
        \cup {PyStr(s) : s \in GenStrings \cup NamedStrings}

\* The defaults of the source's calls (None, 0.0, a name) and one more float.
Defaults ==
    {PyNone, PyFloat(FALSE, 0, 0), PyFloat(FALSE, 99, 0), PyStr(<<"?">>)}

NormInit ==
    /\ patternEngine = "python_re"
    /\ ReqIdle
    /\ nx \in RawInputs
    /\ nd \in Defaults
    /\ nop = "input"
    /\ nout = <<>>

\* safe_float(x, d)
ApplySafeFloat ==
    /\ nop = "input"
    /\ nout' = <<safe_float(nx, nd)>>
    /\ nop' = "safe_float"
    /\ UNCHANGED <<nx, nd, reqVars>>

\* safe_float(safe_float(x, d), d)
ApplySafeFloatAgain ==
    /\ nop = "safe_float"
    /\ nout' = Append(nout, safe_float(nout[1], nd))
    /\ nop' = "safe_float_twice"
    /\ UNCHANGED <<nx, nd, reqVars>>

\* safe_get_value(row, key, d) on a row whose column key holds x
ApplySafeGetValue ==
    /\ nop = "input"
    /\ nout' = <<safe_get_value([k \in {"key"} |-> nx], "key", nd)>>
    /\ nop' = "safe_get_value"
    /\ UNCHANGED <<nx, nd, reqVars>>

\* safe_float(safe_get_value(row, key), d), as the handlers compose them
ApplyGetThenFloat ==
    /\ nop = "input"
    /\ nout' = <<safe_float(safe_get_value([k \in {"key"} |-> nx], "key",
                                           PyNone), nd)>>
    /\ nop' = "get_then_float"
    /\ UNCHANGED <<nx, nd, reqVars>>

\* extract_field(key) on a row whose column key holds x
ApplyExtractField ==
    /\ nop = "input"
    /\ nout' = <<extract_field([k \in {"key"} |-> nx], "key")>>
    /\ nop' = "extract_field"
    /\ UNCHANGED <<nx, nd, reqVars>>

NormNext ==
    \/ ApplySafeFloat
    \/ ApplySafeFloatAgain
    \/ ApplySafeGetValue
    \/ ApplyGetThenFloat
    \/ ApplyExtractField

SpecNorm == NormInit /\ [][NormNext]_vars


\* ----------------------------------------------------------------- claims

\* C1, as stated: a request whose api_key differs from the configured key
\* ends with HTTP 403 and never reaches the upstream provider, whatever its
\* other parameters are.
C1_BadKeyAlways403 ==
    ( /\ "api_key" \in req.given
      /\ req.api_key # EXPECTED_API_KEY
      /\ endpoint = "fund" => "fund_code" \in req.given ) =>
        /\ attempts = 0
        /\ pc = "done" => resp.status = 403

\* C1, amended: a request whose api_key differs from the configured key ends
\* with HTTP 403 "Invalid API Key", unless parameter validation rejects it
\* first, and then it ends with 422; in both cases the upstream provider is
\* never called for it.
C1_BadKey403AfterValidation ==
    ("api_key" \in req.given /\ req.api_key # EXPECTED_API_KEY) =>
        /\ attempts = 0
        /\ upstream = NoUpstream
        /\ pc = "done" =>
              IF ParamsValid(patternEngine, endpoint, req)
              THEN resp.status = 403 /\ resp.detail = DetailInvalidKey
              ELSE resp.status = 422

\* C1 witness: a validated request with a wrong key has been answered 403
\* on each route's handler (here the market route).
C1_Witness ==
    /\ pc = "done"
    /\ endpoint = "market"
    /\ "api_key" \in req.given
    /\ req.api_key = "wrong-key"
    /\ resp.status = 403
    /\ attempts = 0

\* C2, as stated: when the upstream call fails, it is tried again, and a
\* request whose every attempt failed ends with status 503 after exactly
\* 3 attempts.
C2_ThreeAttemptsThen503 ==
    (pc = "done" /\ upstream.kind = "raise") =>
        /\ attempts = 3
        /\ resp.status = 503

\* C3: an HTTPException raised in a handler (403, 404) reaches the caller
\* with its status and detail; any other exception raised after the key
\* check (the upstream call, the row selection, the rendering of normalised
\* values) becomes a 500 with the handler's fixed message; no response
\* carries the text of an exception.
C3_ErrorsMapped ==
    pc = "done" =>
        LET generic == IF endpoint = "fund" THEN DetailFundFailed
                       ELSE DetailMarketFailed
        IN  /\ raised.kind = "http" =>
                  /\ resp.status = raised.status
                  /\ resp.detail = raised.detail
                  /\ resp.status \in {403, 404}
            /\ raised.kind = "other" =>
                  /\ resp.status = 500
                  /\ resp.detail = generic
                  /\ resp.detail # raised.text
            /\ upstream.kind \in {"raise", "nocolumn"} =>
                  /\ raised.kind = "other"
                  /\ resp.status = 500
            /\ raised.kind = "none" => resp.status \in {200, 422}

\* C3 witness: a table was fetched, rendering its normalised values raised
\* a ValueError, and the request ended with the generic 500.
C3_Witness ==
    /\ pc = "done"
    /\ upstream.kind = "table"
    /\ raised.kind = "other"
    /\ resp.status = 500
    /\ resp.detail = DetailFundFailed

\* pattern in str, for a pattern of several characters
IsSubstring(pat, chars) ==
    \E i \in 0..(Len(chars) - Len(pat)) :
        SubSeq(chars, i + 1, i + Len(pat)) = pat

\* The rows whose category contains the canonical label.
FuzzyRows(rows, label) ==
    SelectSeq(rows, LAMBDA r : IsSubstring(label, r["BanKuai"].s))

\* C5, as stated: the first row with the exact canonical label is used;
\* with no such row the first row whose category contains the label is
\* used; the request ends 404 only when neither match finds a row.
C5_ExactThenFuzzy ==
    (pc = "done" /\ endpoint = "market" /\ upstream.kind = "table") =>
        LET label == MarketLabel(MarketParam(req))
            exact == SelectSeq(upstream.rows,
                               LAMBDA r : r["BanKuai"].s = label)
            fuzzy == FuzzyRows(upstream.rows, label)
            chosen == IF exact # <<>> THEN exact ELSE fuzzy
        IN  IF chosen = <<>>
            THEN resp.status = 404
            ELSE resp = HandleExceptions(
                            JSONResponse(MarketData(label, chosen[1])),
                            DetailMarketFailed)

\* Exactly six decimal digits.
SixDecimalDigits(code) ==
    /\ Len(code) = 6
    /\ \A i \in 1..Len(code) : IsDecimalDigit(code[i])

\* C6, as stated: for a /fund/single request whose fund_code is not exactly
\* six decimal digits the upstream provider is never called and no 200
\* envelope is produced.
C6_MalformedCodeNeverFetched ==
    ( /\ endpoint = "fund"
      /\ "fund_code" \in req.given
      /\ ~SixDecimalDigits(req.fund_code) ) =>
        /\ attempts = 0
        /\ resp.status # 200

\* C8: on /fund/single, once the table is fetched: an empty table ends 404;
\* a first row whose unit NAV normalises to None ends 404; and a 200
\* response carries a finite float unit_nav and the requested fund_code.
C8_FundNotFoundOrNumericNav ==
    (pc = "done" /\ endpoint = "fund" /\ upstream.kind = "table") =>
        /\ upstream.rows = <<>> => resp.status = 404
        /\ ( /\ upstream.rows # <<>>
             /\ safe_float(safe_get_value(upstream.rows[1], "DanWeiJingZhi",
                                          PyNone), PyNone) = PyNone )
              => resp.status = 404
        /\ resp.status = 200 =>
              /\ resp.data.unit_nav.t = "float"
              /\ resp.data.fund_code = PyStr(req.fund_code)

\* C8 witness: a non-empty table whose first unit NAV is missing was
\* answered 404.
C8_Witness ==
    /\ pc = "done"
    /\ endpoint = "fund"
    /\ upstream.kind = "table"
    /\ upstream.rows # <<>>
    /\ upstream.rows[1]["DanWeiJingZhi"] = PyStr(<<"-">>)
    /\ resp.status = 404
    /\ resp.detail = DetailNoNav

\* The sentinel tokens "-", "", "None", "null", "NaN" in any casing, None
\* and the float NaN.
IsSentinel(x) ==
    \/ x.t \in {"none", "nan"}
    \/ /\ x.t = "str"
       /\ LowerStr(x.s) \in { <<"-">>, <<>>, <<"n", "o", "n", "e">>,
                              <<"n", "u", "l", "l">>, <<"n", "a", "n">> }

\* C4, as stated: on a sentinel input safe_float, safe_get_value and their
\* composition return the supplied default.
C4_SentinelsGiveDefault ==
    ( /\ nop \in {"safe_float", "safe_get_value", "get_then_float"}
      /\ IsSentinel(nx) ) => nout[1] = nd

\* The number the documentation gives a non-sentinel string: the numeral
\* before a trailing percent sign, the numeral left when the scale marker is
\* removed, the numeral itself, or the default when that does not parse.
DocumentedNumber(chars, default) ==
    LET txt == IF EndsWith(chars, "%") THEN RStripChar(chars, "%")
               ELSE IF Contains(chars, "Yi") THEN RemoveChar(chars, "Yi")
               ELSE chars
        r == ParseFloat(txt)
    IN  IF r.ok THEN r.val ELSE default

\* C7, as stated: safe_float of a non-sentinel string is the documented
\* number: "12.5%" gives 12.5, "3.21Yi" gives 3.21, "7.0" gives 7.0, "abc"
\* gives the default.
C7_PercentMarkerNumeral ==
    (nop = "safe_float" /\ nx.t = "str" /\ ~IsSentinel(nx)) =>
        nout[1] = DocumentedNumber(nx.s, nd)

\* Python's ==.  NaN compares unequal to everything, itself included;
\* 0.0 == -0.0; values of different types are unequal.
PyEq(a, b) ==
    CASE a.t = "nan" \/ b.t = "nan" -> FALSE
      [] a.t = "float" /\ b.t = "float" ->
            /\ a.m = b.m
            /\ a.e = b.e
            /\ (a.neg = b.neg \/ a.m = 0)
      [] OTHER -> a = b

\* C9, as stated: with a default that is None or a float, normalising a
\* normalised number gives a value equal (Python ==) to it.
C9_SafeFloatIdempotent ==
    (nop = "safe_float_twice" /\ nd.t \in {"none", "float"}) =>
        PyEq(nout[2], nout[1])

\* None, a float, or a trimmed non-empty string.
IsNormalizedField(v) ==
    \/ v.t = "none"
    \/ IsFloat(v)
    \/ v.t = "str" /\ v.s # <<>> /\ Strip(v.s) = v.s

\* C10, as stated: whatever the upstream value, safe_get_value and
\* extract_field return None, a float or a trimmed non-empty string.
C10_ResultIsNormalizedField ==
    (nop \in {"safe_get_value", "extract_field"} /\ IsNormalizedField(nd)) =>
        IsNormalizedField(nout[1])

====
